---- MODULE Spec2Model ----
(***************************************************************************)
(* Model of scripts/unicode.py: the table generator of unicode-segmentation.*)
(* It covers the interval compressor (group_cat), the property loader       *)
(* (load_properties), the build of the combined break tables in __main__,   *)
(* the coarse lookup table of emit_break_module, and the generated Rust     *)
(* query (<name>_category / bsearch_range_value_table).                     *)
(*                                                                         *)
(* Code points are scaled down: the code point space is 0..MaxCodePoint,    *)
(* the surrogate block and the lookup parameters are scaled with it.        *)
(* An interval is a pair <<lo, hi>>, a table entry a triple <<lo, hi, cat>>.*)
(* A python dict is a sequence of <<key, value>> pairs in insertion order.  *)
(***************************************************************************)
EXTENDS Integers, Sequences, FiniteSets, TLC

VARIABLES pc, cat, cat_out, derived, grapheme_cats, emoji_props, rf,
          break_table, lookup_table, j, name, c, result

vars == <<pc, cat, cat_out, derived, grapheme_cats, emoji_props, rf,
          break_table, lookup_table, j, name, c, result>>

(* ---------------------------------------------------------------- bounds *)
\* largest code point fed to group_cat in SpecGroup
MaxLetter == 4
\* longest input list of group_cat in SpecGroup
MaxLen == 4
\* largest code point of a table entry or of a query in SpecQuery
MaxCodePoint == 8
\* largest code point of a record of a property file in SpecBuild
MaxFileCodePoint == 3
\* most records in one property file in SpecBuild
MaxRecords == 2

(* ------------------------------------------------------ program constants *)
\* surrogate_codepoints = (0xd800, 0xdfff), scaled
surrogate_codepoints == <<1, 2>>

is_surrogate(n) == surrogate_codepoints[1] <= n /\ n <= surrogate_codepoints[2]

\* lookup_value_cutoff = 0x20000, scaled
lookup_value_cutoff == 6
\* lookup_table_len = 0x400, scaled
lookup_table_len == 3

\* python round(): round half to even, of the quotient a / b
round(a, b) ==
    LET q == a \div b
        r == a % b
    IN  IF 2 * r < b THEN q
        ELSE IF 2 * r > b THEN q + 1
        ELSE IF q % 2 = 0 THEN q ELSE q + 1

lookup_interval == round(lookup_value_cutoff, lookup_table_len)

(* ------------------------------------------------------- python builtins *)
Min(S) == CHOOSE x \in S : \A y \in S : x <= y

\* set(list)
set(l) == {l[i] : i \in DOMAIN l}

\* sorted(set): ascending list of the members
RECURSIVE sorted(_)
sorted(S) ==
    IF S = {} THEN <<>>
    ELSE LET m == Min(S) IN <<m>> \o sorted(S \ {m})

\* list(range(lo, hi + 1))
Range(lo, hi) == [i \in 1..(hi - lo + 1) |-> lo + i - 1]

\* the position at which list.sort(key=lambda w: w[0]) puts e among the
\* already sorted elements: after every element whose key is <= e's (stable)
RECURSIVE InsertByLow(_, _)
InsertByLow(l, e) ==
    IF l = <<>> THEN <<e>>
    ELSE IF e[1] < l[Len(l)][1]
         THEN Append(InsertByLow(SubSeq(l, 1, Len(l) - 1), e), l[Len(l)])
         ELSE Append(l, e)

\* list.sort(key=lambda w: w[0])
RECURSIVE SortByLow(_)
SortByLow(l) ==
    IF l = <<>> THEN <<>>
    ELSE InsertByLow(SortByLow(SubSeq(l, 1, Len(l) - 1)), l[Len(l)])

(* ---------------------------------------------------------- group_cat *)
\* the value standing for the failed assert of group_cat (never a result:
\* group_cat returns at least one interval)
AssertionError == <<>>

\* group_cat's loop taking a letter two past cur_end for adjacent
RECURSIVE GroupLoop_Adjacent(_, _, _, _)
GroupLoop_Adjacent(letters, cur_start, cur_end, out) ==
    IF letters = <<>> THEN Append(out, <<cur_start, cur_end>>)
    ELSE LET letter == Head(letters) IN
         IF ~(letter > cur_end) THEN AssertionError
         ELSE IF letter <= cur_end + 2
              THEN GroupLoop_Adjacent(Tail(letters), cur_start, letter, out)
              ELSE GroupLoop_Adjacent(Tail(letters), letter, letter,
                                      Append(out, <<cur_start, cur_end>>))

\* the for loop of group_cat over the remaining letters
RECURSIVE GroupLoop(_, _, _, _)
GroupLoop(letters, cur_start, cur_end, out) ==
    IF letters = <<>> THEN Append(out, <<cur_start, cur_end>>)
    ELSE LET letter == Head(letters) IN
         IF ~(letter > cur_end) THEN AssertionError
         ELSE IF letter = cur_end + 1
              THEN GroupLoop(Tail(letters), cur_start, letter, out)
              ELSE GroupLoop(Tail(letters), letter, letter,
                             Append(out, <<cur_start, cur_end>>))

group_cat(l) ==
    LET letters == sorted(set(l))
    IN  GroupLoop(Tail(letters), Head(letters), Head(letters), <<>>)

RECURSIVE ungroup_cat(_)
ungroup_cat(l) ==
    IF l = <<>> THEN <<>>
    ELSE Range(l[1][1], l[1][2]) \o ungroup_cat(Tail(l))

\* the code points of a list of intervals or of table entries
Members(l) == UNION {l[i][1]..l[i][2] : i \in DOMAIN l}

(* ------------------------------------------------- emit_break_module *)
\* the while loop stopping only at an upper bound beyond lookup_from
RECURSIVE Advance_Strict(_, _, _)
Advance_Strict(table, jj, lookup_from) ==
    IF jj < Len(table)
    THEN IF table[jj + 1][2] > lookup_from
         THEN jj
         ELSE Advance_Strict(table, jj + 1, lookup_from)
    ELSE jj

\* the while loop of the lookup table construction: advance j to the first
\* entry whose upper bound reaches lookup_from
RECURSIVE Advance(_, _, _)
Advance(table, jj, lookup_from) ==
    IF jj < Len(table)
    THEN IF table[jj + 1][2] >= lookup_from
         THEN jj
         ELSE Advance(table, jj + 1, lookup_from)
    ELSE jj

\* the for loop over the buckets, from bucket i on; yields <<lookup_table, j>>
RECURSIVE BuildLookup(_, _, _, _)
BuildLookup(table, i, jj, lt) ==
    IF i >= lookup_table_len THEN <<lt, jj>>
    ELSE LET lookup_from == i * lookup_interval
             j2 == Advance(table, jj, lookup_from)
         IN  BuildLookup(table, i + 1, j2, [lt EXCEPT ![i] = j2])

\* emit_break_module: the lookup table, the final j and the range table are
\* what the emitted module is made of
emit_break_module(table, nm) ==
    LET built == BuildLookup(table, 0, 0, [i \in 0..(lookup_table_len - 1) |-> 0])
    IN  /\ break_table' = table
        /\ lookup_table' = built[1]
        /\ j' = built[2]
        /\ name' = nm

(* ------------------------------------------------ the generated query *)
\* the query ended in a panic of the Rust runtime instead of a result
Panic == <<-1, -1, "Panic">>

\* the closure with the low bound excluded from the entry
Compare_OpenLow(e, ch) ==
    IF e[1] < ch /\ ch <= e[2] THEN "Equal"
    ELSE IF e[2] < ch THEN "Less"
    ELSE "Greater"

\* the closure of binary_search_by: "Equal", "Less" or "Greater"
Compare(e, ch) ==
    IF e[1] <= ch /\ ch <= e[2] THEN "Equal"
    ELSE IF e[2] < ch THEN "Less"
    ELSE "Greater"

\* slice::binary_search_by on r (indices from 0): <<"Ok", idx>> or <<"Err", idx>>
RECURSIVE binary_search_by(_, _, _, _)
binary_search_by(r, ch, left, right) ==
    IF left >= right THEN <<"Err", left>>
    ELSE LET mid == left + ((right - left) \div 2)
             cmp == Compare(r[mid + 1], ch)
         IN  IF cmp = "Equal" THEN <<"Ok", mid>>
             ELSE IF cmp = "Less" THEN binary_search_by(r, ch, mid + 1, right)
             ELSE binary_search_by(r, ch, left, mid)

bsearch_range_value_table(ch, r, default_lower, default_upper) ==
    LET found == binary_search_by(r, ch, 0, Len(r))
        idx == found[2]
    IN  IF found[1] = "Ok" THEN r[idx + 1]
        ELSE << IF idx > 0 THEN r[idx][2] + 1 ELSE default_lower,
                IF idx < Len(r) THEN r[idx + 1][1] - 1 ELSE default_upper,
                "Any" >>

\* the window without the entry at lookup[idx + 1]
Window_NoPlusOne(ch, table, lookup, jend) ==
    LET idx == ch \div lookup_interval
    IN  IF idx + 2 <= lookup_table_len
        THEN <<lookup[idx], lookup[idx + 1]>>
        ELSE <<jend, Len(table)>>

\* the window of the range table that <name>_category searches in, as
\* <<start, end>> (end exclusive)
Window(ch, table, lookup, jend) ==
    LET idx == ch \div lookup_interval
    IN  IF idx + 2 <= lookup_table_len
        THEN <<lookup[idx], lookup[idx + 1] + 1>>
        ELSE <<jend, Len(table)>>

\* <name>_category with the default lower bound one below the bucket start
category_LowerOffByOne(ch, table, lookup, jend) ==
    LET idx == ch \div lookup_interval
        range == Window(ch, table, lookup, jend)
        lower == idx * lookup_interval
        upper == lower + lookup_interval - 1
    IN  IF range[1] > range[2] \/ range[2] > Len(table) THEN Panic
        ELSE bsearch_range_value_table(ch, SubSeq(table, range[1] + 1, range[2]),
                                       lower - 1, upper)

\* <name>_category; slicing the table outside its bounds panics
category(ch, table, lookup, jend) ==
    LET idx == ch \div lookup_interval
        range == Window(ch, table, lookup, jend)
        lower == idx * lookup_interval
        upper == lower + lookup_interval - 1
    IN  IF range[1] > range[2] \/ range[2] > Len(table) THEN Panic
        ELSE bsearch_range_value_table(ch, SubSeq(table, range[1] + 1, range[2]),
                                       lower, upper)

(* ------------------------------------------------------- shared pieces *)
\* [(x, y, cat) for (x, y) in cats[cat]]
CatEntries(intervals, k) ==
    [i \in DOMAIN intervals |-> <<intervals[i][1], intervals[i][2], k>>]

NoLookup == [i \in 0..(lookup_table_len - 1) |-> 0]
NoResult == <<0, 0, "None">>

\* a range table is sorted ascending by low with pairwise disjoint intervals
IsSortedDisjoint(table) ==
    /\ \A i \in DOMAIN table : table[i][1] <= table[i][2]
    /\ \A i \in 1..(Len(table) - 1) : table[i][2] < table[i + 1][1]

(* ------------------------------------------------------------ SpecGroup *)
\* the lists group_cat is applied to: any order, duplicates allowed
GroupInputs == UNION {[1..n -> 0..MaxLetter] : n \in 1..MaxLen}

InitGroup ==
    /\ pc = "group_cat"
    /\ cat \in GroupInputs
    /\ cat_out = <<>>
    /\ derived = <<>> /\ grapheme_cats = <<>> /\ emoji_props = <<>> /\ rf = <<>>
    /\ break_table = <<>> /\ lookup_table = NoLookup /\ j = 0 /\ name = ""
    /\ c = 0 /\ result = NoResult

GroupCat ==
    /\ pc = "group_cat"
    /\ cat_out' = group_cat(cat)
    /\ pc' = "grouped"
    /\ UNCHANGED <<cat, derived, grapheme_cats, emoji_props, rf, break_table,
                   lookup_table, j, name, c, result>>

NextGroup == GroupCat

SpecGroup == InitGroup /\ [][NextGroup]_vars

(* ------------------------------------------------------------ SpecQuery *)
BreakCats == {"X", "Y"}

\* the table of an assignment of at most one category to every code point:
\* per category the compressed intervals, flattened and sorted by low
RECURSIVE Flatten(_, _)
Flatten(f, ks) ==
    IF ks = {} THEN <<>>
    ELSE LET k == CHOOSE x \in ks : TRUE
             S == {n \in DOMAIN f : f[n] = k}
         IN  (IF S = {} THEN <<>> ELSE CatEntries(group_cat(sorted(S)), k))
             \o Flatten(f, ks \ {k})

TableOf(f) == SortByLow(Flatten(f, BreakCats))

RangeTables == {TableOf(f) : f \in [0..MaxCodePoint -> BreakCats \cup {"None"}]}

\* the valid chars within the modelled code point space
Chars == {n \in 0..MaxCodePoint : ~is_surrogate(n)}

InitQuery ==
    /\ pc = "emit"
    /\ break_table \in RangeTables
    /\ name = "break"
    /\ lookup_table = NoLookup /\ j = 0
    /\ c = 0 /\ result = NoResult
    /\ cat = <<>> /\ cat_out = <<>>
    /\ derived = <<>> /\ grapheme_cats = <<>> /\ emoji_props = <<>> /\ rf = <<>>

EmitBreakModule ==
    /\ pc = "emit"
    /\ emit_break_module(break_table, name)
    /\ pc' = "ready"
    /\ UNCHANGED <<cat, cat_out, derived, grapheme_cats, emoji_props, rf, c, result>>

Query ==
    /\ pc \in {"ready", "queried"}
    /\ \E ch \in Chars :
          /\ c' = ch
          /\ result' = category(ch, break_table, lookup_table, j)
    /\ pc' = "queried"
    /\ UNCHANGED <<cat, cat_out, derived, grapheme_cats, emoji_props, rf,
                   break_table, lookup_table, j, name>>

NextQuery == EmitBreakModule \/ Query

SpecQuery == InitQuery /\ [][NextQuery]_vars

(* ------------------------------------------------------ load_properties *)
\* python dicts: sequences of <<key, value>> in insertion order
Has(d, k) == \E i \in DOMAIN d : d[i][1] = k
Get(d, k) == d[CHOOSE i \in DOMAIN d : d[i][1] = k][2]
Put(d, k, v) ==
    IF Has(d, k)
    THEN [i \in DOMAIN d |-> IF d[i][1] = k THEN <<k, v>> ELSE d[i]]
    ELSE Append(d, <<k, v>>)

\* interestingprops = None
None == {"None"}

\* the loop over the lines of a property file; a line is <<lo, hi, prop>>
\* (a (prop, value) pair is written prop_value)
RECURSIVE LoadLines(_, _, _)
LoadLines(lines, interestingprops, props) ==
    IF lines = <<>> THEN props
    ELSE LET d_lo == lines[1][1]
             d_hi == lines[1][2]
             prop == lines[1][3]
         IN  IF interestingprops # None /\ prop \notin interestingprops
             THEN LoadLines(Tail(lines), interestingprops, props)
             ELSE LoadLines(Tail(lines), interestingprops,
                     Put(props, prop,
                         Append(IF Has(props, prop) THEN Get(props, prop) ELSE <<>>,
                                <<d_lo, d_hi>>)))

load_properties(lines, interestingprops) ==
    LET props == LoadLines(lines, interestingprops, <<>>)
    IN  [i \in DOMAIN props |->
            <<props[i][1], group_cat(ungroup_cat(props[i][2]))>>]

(* ------------------------------------------------------------- __main__ *)
\* table = []; for cat in cats: table.extend([(x, y, cat) ...])
RECURSIVE FlattenCats(_)
FlattenCats(cats) ==
    IF cats = <<>> THEN <<>>
    ELSE CatEntries(cats[1][2], cats[1][1]) \o FlattenCats(Tail(cats))

\* the overlap check of grapheme_table: TRUE when the raise is reached
RECURSIVE Overlaps(_, _)
Overlaps(table, last) ==
    IF table = <<>> THEN FALSE
    ELSE IF table[1][1] <= last THEN TRUE
    ELSE Overlaps(Tail(table), table[1][2])

\* the literal chain written for is_incb_linker: per interval the char
\* literal of lo, followed by ..'lo' when lo != hi
LinkerChain(intervals) ==
    [i \in DOMAIN intervals |->
        IF intervals[i][1] # intervals[i][2]
        THEN <<"range", intervals[i][1], intervals[i][1]>>
        ELSE <<"char", intervals[i][1], intervals[i][1]>>]

\* a pattern of matches!: a char literal, or a range a..b (b excluded)
Matches(pattern, ch) ==
    IF pattern[1] = "char" THEN ch = pattern[2]
    ELSE pattern[2] <= ch /\ ch < pattern[3]

\* the property files: sequences of at most MaxRecords well-formed lines
Ranges == {r \in (0..MaxFileCodePoint) \X (0..MaxFileCodePoint) : r[1] <= r[2]}
Files(fileprops) ==
    UNION {[1..n -> {<<r[1], r[2], p>> : r \in Ranges, p \in fileprops}] :
             n \in 0..MaxRecords}

DerivedCoreProperties == Files({"InCB_Consonant", "InCB_Linker", "Math"})
GraphemeBreakProperty == Files({"Control", "Extend"})
EmojiData == Files({"Extended_Pictographic", "Emoji"})
WordBreakProperty == Files({"ALetter", "Numeric"})
SentenceBreakProperty == Files({"Lower", "Upper"})

InitBuild ==
    /\ pc = "derived"
    /\ derived = <<>> /\ grapheme_cats = <<>> /\ emoji_props = <<>> /\ rf = <<>>
    /\ break_table = <<>> /\ lookup_table = NoLookup /\ j = 0 /\ name = ""
    /\ c = 0 /\ result = NoResult
    /\ cat = <<>> /\ cat_out = <<>>

\* derived = load_properties("DerivedCoreProperties.txt", [...])
LoadDerived ==
    /\ pc = "derived"
    /\ \E f \in DerivedCoreProperties :
          derived' = load_properties(f,
              {"Alphabetic", "InCB_Consonant", "InCB_Extend", "InCB_Linker"})
    /\ pc' = "linker"
    /\ UNCHANGED <<cat, cat_out, grapheme_cats, emoji_props, rf, break_table,
                   lookup_table, j, name, c, result>>

\* the emission of is_incb_linker; rf holds the chain written
EmitIncbLinker ==
    /\ pc = "linker"
    /\ IF Has(derived, "InCB_Linker")
       THEN rf' = LinkerChain(Get(derived, "InCB_Linker")) /\ pc' = "grapheme"
       ELSE rf' = rf /\ pc' = "KeyError"
    /\ UNCHANGED <<cat, cat_out, derived, grapheme_cats, emoji_props, break_table,
                   lookup_table, j, name, c, result>>

\* grapheme_cats = load_properties("auxiliary/GraphemeBreakProperty.txt").
\* From here on derived is read for InCB_Consonant only and the text of
\* is_incb_linker is in the output file: the state keeps what is still read.
LoadGrapheme ==
    /\ pc = "grapheme"
    /\ \E f \in GraphemeBreakProperty : grapheme_cats' = load_properties(f, None)
    /\ derived' = SelectSeq(derived, LAMBDA kv : kv[1] = "InCB_Consonant")
    /\ rf' = <<>>
    /\ pc' = "control"
    /\ UNCHANGED <<cat, cat_out, emoji_props, break_table, lookup_table, j, name,
                   c, result>>

\* grapheme_cats["Control"] = group_cat(list(set(ungroup_cat(Control))
\*                                       - set(ungroup_cat([surrogate_codepoints]))))
ControlFix ==
    /\ pc = "control"
    /\ IF Has(grapheme_cats, "Control")
       THEN LET rest == set(ungroup_cat(Get(grapheme_cats, "Control")))
                          \ set(ungroup_cat(<<surrogate_codepoints>>))
            IN  IF rest = {}
                THEN grapheme_cats' = grapheme_cats /\ pc' = "IndexError"
                ELSE /\ grapheme_cats' =
                          Put(grapheme_cats, "Control", group_cat(sorted(rest)))
                     /\ pc' = "emoji"
       ELSE grapheme_cats' = grapheme_cats /\ pc' = "KeyError"
    /\ UNCHANGED <<cat, cat_out, derived, emoji_props, rf, break_table,
                   lookup_table, j, name, c, result>>

\* grapheme_cats["InCB_Consonant"] = ...; emoji_props = load_properties(...);
\* grapheme_cats["Extended_Pictographic"] = ...
LoadEmoji ==
    /\ pc = "emoji"
    /\ \E f \in EmojiData :
          LET props == load_properties(f, {"Extended_Pictographic"})
          IN  IF Has(derived, "InCB_Consonant") /\ Has(props, "Extended_Pictographic")
              THEN /\ emoji_props' = props
                   /\ grapheme_cats' =
                        Put(Put(grapheme_cats, "InCB_Consonant",
                                Get(derived, "InCB_Consonant")),
                            "Extended_Pictographic",
                            Get(props, "Extended_Pictographic"))
                   /\ pc' = "grapheme_table"
              ELSE /\ emoji_props' = emoji_props
                   /\ grapheme_cats' = grapheme_cats
                   /\ pc' = "KeyError"
    /\ derived' = <<>>
    /\ UNCHANGED <<cat, cat_out, rf, break_table, lookup_table, j, name, c, result>>

\* grapheme_table: flatten, sort, overlap check, emit_break_module
GraphemeTable ==
    /\ pc = "grapheme_table"
    /\ LET grapheme_table == SortByLow(FlattenCats(grapheme_cats))
       IN  IF Overlaps(grapheme_table, -1)
           THEN /\ pc' = "raise"
                /\ UNCHANGED <<break_table, lookup_table, j, name>>
           ELSE /\ emit_break_module(grapheme_table, "grapheme")
                /\ pc' = "word"
    /\ grapheme_cats' = <<>>
    /\ UNCHANGED <<cat, cat_out, derived, emoji_props, rf, c, result>>

\* word_cats = load_properties(...); word_table: flatten, sort, emit_break_module
WordTable ==
    /\ pc = "word"
    /\ \E f \in WordBreakProperty :
          LET word_cats == load_properties(f, None)
              word_table == SortByLow(FlattenCats(word_cats))
          IN  emit_break_module(word_table, "word")
    /\ pc' = "emoji_table"
    /\ UNCHANGED <<cat, cat_out, derived, grapheme_cats, emoji_props, rf, c, result>>

\* emoji_table = [(x, y, "Extended_Pictographic") ...]; emit_break_module
EmojiTable ==
    /\ pc = "emoji_table"
    /\ emit_break_module(
          CatEntries(Get(emoji_props, "Extended_Pictographic"), "Extended_Pictographic"),
          "emoji")
    /\ emoji_props' = <<>>
    /\ pc' = "sentence"
    /\ UNCHANGED <<cat, cat_out, derived, grapheme_cats, rf, c, result>>

\* sentence_cats = load_properties(...); sentence_table: flatten, sort, emit
SentenceTable ==
    /\ pc = "sentence"
    /\ \E f \in SentenceBreakProperty :
          LET sentence_cats == load_properties(f, None)
              sentence_table == SortByLow(FlattenCats(sentence_cats))
          IN  emit_break_module(sentence_table, "sentence")
    /\ pc' = "done"
    /\ UNCHANGED <<cat, cat_out, derived, grapheme_cats, emoji_props, rf, c, result>>

NextBuild ==
    \/ LoadDerived \/ EmitIncbLinker \/ LoadGrapheme \/ ControlFix \/ LoadEmoji
    \/ GraphemeTable \/ WordTable \/ EmojiTable \/ SentenceTable

SpecBuild == InitBuild /\ [][NextBuild]_vars

(* ------------------------------------------------- properties: group_cat *)
\* C1: for every non-empty list of code points, in any order and with or
\* without duplicates, group_cat returns closed intervals sorted ascending
\* whose union is exactly the set of the list, and no two consecutive
\* intervals are mergeable (previous high + 1 < next low).
C1_GroupCatExact ==
    pc = "grouped" =>
        /\ cat_out # <<>>
        /\ \A i \in DOMAIN cat_out : cat_out[i][1] <= cat_out[i][2]
        /\ Members(cat_out) = set(cat)
        /\ \A i \in 1..(Len(cat_out) - 1) : cat_out[i][2] + 1 < cat_out[i + 1][1]

\* an unsorted list with a duplicate compresses to two intervals, one of
\* them longer than one code point
C1_Witness ==
    /\ pc = "grouped"
    /\ Len(cat_out) = 2
    /\ cat_out[1][1] < cat_out[1][2]
    /\ Cardinality(set(cat)) < Len(cat)
    /\ \E i \in 1..(Len(cat) - 1) : cat[i] > cat[i + 1]

(* ------------------------------------------- properties: lookup and query *)
\* the index (from 0) of the first entry whose high bound is >= x, or the
\* length of the table when there is none
FirstReaching(table, x) ==
    IF \E k \in DOMAIN table : table[k][2] >= x
    THEN Min({k \in DOMAIN table : table[k][2] >= x}) - 1
    ELSE Len(table)

\* the entries of the table that contain ch
Containing(table, ch) ==
    {table[k] : k \in {i \in DOMAIN table : table[i][1] <= ch /\ ch <= table[i][2]}}

\* the binary search of the query over the whole table, without the index
Unindexed(ch, table) ==
    LET lower == (ch \div lookup_interval) * lookup_interval
    IN  bsearch_range_value_table(ch, table, lower, lower + lookup_interval - 1)

Max2(a, b) == IF a >= b THEN a ELSE b

\* C2: for a sorted, disjoint table and a valid c, whenever the query
\* returns (lo, hi, cat) then lo <= c <= hi; if an entry contains c the
\* result is exactly that entry; if none does the category is Any.
C2_QueryConsistent ==
    (pc = "queried" /\ IsSortedDisjoint(break_table) /\ result # Panic) =>
        /\ result[1] <= c /\ c <= result[2]
        /\ \A e \in Containing(break_table, c) : result = e
        /\ Containing(break_table, c) = {} => result[3] = "Any"

\* a hit on the last of three entries
C2_Witness ==
    /\ pc = "queried"
    /\ Len(break_table) = 3
    /\ result = break_table[3]
    /\ result[1] < c /\ c < result[2]

\* C3: the window selected from the lookup table is a valid sub-range of the
\* range table (start <= end <= table length) for every table and valid c,
\* so the query always returns a result (stated here for the tables with at
\* least one entry).
C3_WindowValid ==
    (pc = "queried" /\ break_table # <<>>) =>
        LET w == Window(c, break_table, lookup_table, j)
        IN  /\ w[1] <= w[2]
            /\ w[2] <= Len(break_table)
            /\ result # Panic

C6_GapNotOverstated ==
    (pc = "queried" /\ IsSortedDisjoint(break_table) /\ result # Panic
        /\ Containing(break_table, c) = {}) =>
        (result[1]..result[2]) \cap Members(break_table) = {}

\* a miss with the default lower bound although an earlier entry exists,
\* and the upper bound taken from the next entry
C6_Witness ==
    /\ pc = "queried"
    /\ result[3] = "Any"
    /\ \E k \in DOMAIN break_table : break_table[k][2] < c
    /\ result[1] = (c \div lookup_interval) * lookup_interval
    /\ \E k \in DOMAIN break_table : break_table[k][1] = result[2] + 1

\* C8: for a table whose last entry ends at h and a valid c > h, the query
\* returns category Any with lower bound exactly h + 1.
C8_GapAfterEnd ==
    (pc = "queried" /\ break_table # <<>> /\ c > break_table[Len(break_table)][2]) =>
        /\ result[3] = "Any"
        /\ result[1] = break_table[Len(break_table)][2] + 1

\* C9: after the pass of the lookup table construction, lookup_table[i] is
\* the index of the first entry whose high bound is >= i * lookup_interval,
\* or the table length when there is none; so lookup_table is non-decreasing
\* and every value lies in [0, table length]; j is its last value.
C9_LookupFirstReaching ==
    pc \in {"ready", "queried"} =>
        /\ \A i \in 0..(lookup_table_len - 1) :
              /\ lookup_table[i] = FirstReaching(break_table, i * lookup_interval)
              /\ 0 <= lookup_table[i] /\ lookup_table[i] <= Len(break_table)
        /\ \A i \in 0..(lookup_table_len - 2) : lookup_table[i] <= lookup_table[i + 1]

\* the pointer moved for every bucket and ran off the end of the table
C9_Witness ==
    /\ pc = "ready"
    /\ \A i \in 0..(lookup_table_len - 2) : lookup_table[i] < lookup_table[i + 1]
    /\ lookup_table[lookup_table_len - 1] = Len(break_table)

(* ------------------------------------------------- properties: __main__ *)
\* the interval lists of a dict of categories
DictMembers(d) == UNION {Members(d[i][2]) : i \in DOMAIN d}

\* C4: every combined range table (grapheme, word, sentence) handed to
\* emit_break_module is sorted ascending by low with pairwise disjoint
\* intervals; a table with an adjacent pair whose earlier high >= later low
\* aborts the build instead.
C4_EmittedDisjoint ==
    name \in {"grapheme", "word", "sentence"} => IsSortedDisjoint(break_table)

\* C7: no interval of a built table (the lists returned by load_properties,
\* the grapheme categories once Control is rebuilt, the emitted range
\* tables) contains a surrogate code point.
C7_NoSurrogates ==
    \A n \in DictMembers(derived) \cup DictMembers(emoji_props)
             \cup Members(break_table)
             \cup (IF pc \in {"emoji", "grapheme_table"}
                   THEN DictMembers(grapheme_cats) ELSE {}) :
        ~is_surrogate(n)

\* C10: the literal chain written for is_incb_linker matches exactly the
\* code points of the compressed (InCB, Linker) intervals, also for the
\* intervals with lo != hi.
C10_LinkerChainExact ==
    pc = "grapheme" =>
        {ch \in 0..MaxFileCodePoint : \E i \in DOMAIN rf : Matches(rf[i], ch)}
            = Members(Get(derived, "InCB_Linker"))

====
